---------------------------- MODULE Spec2Model ----------------------------
(***************************************************************************)
(* A model of the questdb client (src/src/api.rs): the QuestDB struct and  *)
(* its three async operations exec, imp and exp.  Every call is a small    *)
(* process: it builds its URL, issues one HTTP request, waits for the      *)
(* response and interprets it.  Several calls may be in flight on the same *)
(* client at once (the operations take &self).                             *)
(*                                                                         *)
(* Strings are sequences of one-character strings, byte strings are        *)
(* sequences of integers 0..255, and an Option is a sequence of length 0   *)
(* (None) or 1 (Some).                                                     *)
(***************************************************************************)
EXTENDS Integers, Sequences, FiniteSets, TLC

(***************************************************************************)
(* Bounds of the model.                                                    *)
(***************************************************************************)
MaxCalls == 2
MaxLimit == 20
MaxQuery == 2
MaxRows == 2
MaxBody == 2
MaxRequests == 2

(***************************************************************************)
(* Option<T>.                                                              *)
(***************************************************************************)
None == <<>>
Some(x) == <<x>>
IsSome(o) == Len(o) = 1
Unwrap(o) == o[1]

RECURSIVE SeqsUpTo(_, _)
SeqsUpTo(S, n) ==
    IF n = 0 THEN {<<>>}
    ELSE LET shorter == SeqsUpTo(S, n - 1)
         IN  shorter \cup {Append(s, x) : s \in {t \in shorter : Len(t) = n - 1}, x \in S}

IsPrefix(p, s) == Len(p) <= Len(s) /\ SubSeq(s, 1, Len(p)) = p

(***************************************************************************)
(* format!("{}", x) for the types the URLs are built from.                 *)
(***************************************************************************)
DigitChar(d) == <<"0", "1", "2", "3", "4", "5", "6", "7", "8", "9">>[d + 1]

RECURSIVE FmtUsize(_)
FmtUsize(n) ==
    IF n < 10 THEN <<DigitChar(n)>>
    ELSE FmtUsize(n \div 10) \o <<DigitChar(n % 10)>>

FmtBool(b) == IF b THEN <<"t", "r", "u", "e">> ELSE <<"f", "a", "l", "s", "e">>

(***************************************************************************)
(* urlencoding::encode: every byte that is not an ASCII letter, a digit or *)
(* one of - _ . ~ becomes %XX in upper-case hexadecimal.                   *)
(***************************************************************************)
Unreserved ==
    {"a", "b", "c", "d", "e", "f", "g", "h", "i", "j", "k", "l", "m",
     "n", "o", "p", "q", "r", "s", "t", "u", "v", "w", "x", "y", "z",
     "A", "B", "C", "D", "E", "F", "G", "H", "I", "J", "K", "L", "M",
     "N", "O", "P", "Q", "R", "S", "T", "U", "V", "W", "X", "Y", "Z",
     "0", "1", "2", "3", "4", "5", "6", "7", "8", "9", "-", "_", ".", "~"}

AsciiCode(ch) ==
    CASE ch = " " -> 32
      [] ch = "%" -> 37
      [] ch = "&" -> 38
      [] ch = "*" -> 42
      [] ch = "," -> 44
      [] ch = "/" -> 47
      [] ch = ";" -> 59
      [] ch = "=" -> 61
      [] ch = "?" -> 63

HexChar(d) ==
    <<"0", "1", "2", "3", "4", "5", "6", "7", "8", "9", "A", "B", "C", "D", "E", "F">>[d + 1]

EncodeChar(ch) ==
    IF ch \in Unreserved THEN <<ch>>
    ELSE <<"%", HexChar(AsciiCode(ch) \div 16), HexChar(AsciiCode(ch) % 16)>>

RECURSIVE encode(_)
encode(s) == IF s = <<>> THEN <<>> ELSE EncodeChar(Head(s)) \o encode(Tail(s))

(***************************************************************************)
(* Display of Atomicity (crate::types, not among the sources): the         *)
(* variant's name in lower case.                                           *)
(***************************************************************************)
FmtAtomicity(a) ==
    IF a = "Strict" THEN <<"s", "t", "r", "i", "c", "t">>
    ELSE <<"r", "e", "l", "a", "x", "e", "d">>

(***************************************************************************)
(* The URLs.  Each optional argument is appended only when it is Some.     *)
(***************************************************************************)
\* a variant of ExecUrl that appends nm before count
ExecUrlNmFirst(base, query, limit, count, nm) ==
    base \o <<"/", "e", "x", "e", "c", "?", "q", "u", "e", "r", "y", "=">> \o encode(query)
    \o (IF IsSome(limit)
        THEN <<"&", "l", "i", "m", "i", "t", "=">> \o FmtUsize(Unwrap(limit)) ELSE <<>>)
    \o (IF IsSome(nm)
        THEN <<"&", "n", "m", "=">> \o FmtBool(Unwrap(nm)) ELSE <<>>)
    \o (IF IsSome(count)
        THEN <<"&", "c", "o", "u", "n", "t", "=">> \o FmtBool(Unwrap(count)) ELSE <<>>)

\* exec, lines 71-83
ExecUrl(base, query, limit, count, nm) ==
    base \o <<"/", "e", "x", "e", "c", "?", "q", "u", "e", "r", "y", "=">> \o encode(query)
    \o (IF IsSome(limit)
        THEN <<"&", "l", "i", "m", "i", "t", "=">> \o FmtUsize(Unwrap(limit)) ELSE <<>>)
    \o (IF IsSome(count)
        THEN <<"&", "c", "o", "u", "n", "t", "=">> \o FmtBool(Unwrap(count)) ELSE <<>>)
    \o (IF IsSome(nm)
        THEN <<"&", "n", "m", "=">> \o FmtBool(Unwrap(nm)) ELSE <<>>)

\* a variant of ImpUrl that appends durable before overwrite
ImpUrlDurableFirst(base, table_name, overwrite, durable, atomicity) ==
    base \o <<"/", "i", "m", "p", "?", "f", "m", "t", "=", "j", "s", "o", "n",
              "&", "n", "a", "m", "e", "=">> \o table_name
    \o (IF IsSome(durable)
        THEN <<"&", "d", "u", "r", "a", "b", "l", "e", "=">> \o FmtBool(Unwrap(durable))
        ELSE <<>>)
    \o (IF IsSome(overwrite)
        THEN <<"&", "o", "v", "e", "r", "w", "r", "i", "t", "e", "=">>
             \o FmtBool(Unwrap(overwrite))
        ELSE <<>>)
    \o (IF IsSome(atomicity)
        THEN <<"&", "a", "t", "o", "m", "i", "c", "i", "t", "y", "=">>
             \o FmtAtomicity(Unwrap(atomicity))
        ELSE <<>>)

\* imp, lines 152-178: the table name goes in as it is
ImpUrl(base, table_name, overwrite, durable, atomicity) ==
    base \o <<"/", "i", "m", "p", "?", "f", "m", "t", "=", "j", "s", "o", "n",
              "&", "n", "a", "m", "e", "=">> \o table_name
    \o (IF IsSome(overwrite)
        THEN <<"&", "o", "v", "e", "r", "w", "r", "i", "t", "e", "=">>
             \o FmtBool(Unwrap(overwrite))
        ELSE <<>>)
    \o (IF IsSome(durable)
        THEN <<"&", "d", "u", "r", "a", "b", "l", "e", "=">> \o FmtBool(Unwrap(durable))
        ELSE <<>>)
    \o (IF IsSome(atomicity)
        THEN <<"&", "a", "t", "o", "m", "i", "c", "i", "t", "y", "=">>
             \o FmtAtomicity(Unwrap(atomicity))
        ELSE <<>>)

\* exp, lines 241-246: the query goes in as it is
ExpUrl(base, query, limit) ==
    base \o <<"/", "e", "x", "p", "?", "q", "u", "e", "r", "y", "=">> \o query
    \o (IF IsSome(limit)
        THEN <<"&", "l", "i", "m", "i", "t", "=">> \o FmtUsize(Unwrap(limit)) ELSE <<>>)


(***************************************************************************)
(* Path::file_name: the last component of the path, None when the path     *)
(* ends in "..", is "." or has no component.  A trailing "/" or "/." is    *)
(* not a component.                                                        *)
(***************************************************************************)
RECURSIVE TrimPath(_)
TrimPath(p) ==
    IF Len(p) > 1 /\ p[Len(p)] = "/" THEN TrimPath(SubSeq(p, 1, Len(p) - 1))
    ELSE IF Len(p) > 2 /\ p[Len(p)] = "." /\ p[Len(p) - 1] = "/"
         THEN TrimPath(SubSeq(p, 1, Len(p) - 1))
    ELSE p

RECURSIVE LastSegment(_)
LastSegment(p) ==
    IF p = <<>> \/ p[Len(p)] = "/" THEN <<>>
    ELSE Append(LastSegment(SubSeq(p, 1, Len(p) - 1)), p[Len(p)])

PathFileName(p) ==
    LET seg == LastSegment(TrimPath(p))
    IN  IF seg \in {<<>>, <<".">>, <<".", ".">>} THEN None ELSE Some(seg)

\* lines 187-190: the part's file name, the whole path when there is none
file_name(file_path) ==
    IF IsSome(PathFileName(file_path)) THEN Unwrap(PathFileName(file_path))
    ELSE file_path

(***************************************************************************)
(* Response::text and str::as_bytes.  text() decodes the body as UTF-8     *)
(* and replaces what is not UTF-8 by U+FFFD; as_bytes is the UTF-8         *)
(* encoding.  Characters are code points; sequences of up to three bytes   *)
(* are decoded.                                                            *)
(***************************************************************************)
Replacement == 65533

IsCont(b) == b >= 128 /\ b <= 191

RECURSIVE Utf8Decode(_)
Utf8Decode(bs) ==
    IF bs = <<>> THEN <<>>
    ELSE LET b == bs[1]
         IN  IF b < 128 THEN <<b>> \o Utf8Decode(Tail(bs))
             ELSE IF b >= 194 /\ b <= 223 /\ Len(bs) >= 2 /\ IsCont(bs[2])
                  THEN <<(b - 192) * 64 + (bs[2] - 128)>>
                       \o Utf8Decode(SubSeq(bs, 3, Len(bs)))
             ELSE IF b >= 224 /\ b <= 239 /\ Len(bs) >= 3 /\ IsCont(bs[2]) /\ IsCont(bs[3])
                     /\ (b - 224) * 4096 + (bs[2] - 128) * 64 + (bs[3] - 128) >= 2048
                  THEN <<(b - 224) * 4096 + (bs[2] - 128) * 64 + (bs[3] - 128)>>
                       \o Utf8Decode(SubSeq(bs, 4, Len(bs)))
             ELSE <<Replacement>> \o Utf8Decode(Tail(bs))

EncodeCodePoint(c) ==
    IF c < 128 THEN <<c>>
    ELSE IF c < 2048 THEN <<192 + (c \div 64), 128 + (c % 64)>>
    ELSE <<224 + (c \div 4096), 128 + ((c \div 64) % 64), 128 + (c % 64)>>

RECURSIVE as_bytes(_)
as_bytes(str) ==
    IF str = <<>> THEN <<>> ELSE EncodeCodePoint(Head(str)) \o as_bytes(Tail(str))

(***************************************************************************)
(* serde_json::Value: a pair of the kind of the value and what it holds.   *)
(* A number JNum(n) is an integer within i32; JBig is an integer beyond it *)
(* (2147483648), which an f64 takes and an i32 does not.  An object holds  *)
(* a function from its keys to its members.                                *)
(***************************************************************************)
JNull == <<"null", 0>>
JNum(n) == <<"num", n>>
JBig == <<"big", 0>>
JStr(s) == <<"str", s>>
JArr(elems) == <<"arr", elems>>
JObj(members) == <<"obj", members>>

Kind(val) == val[1]
Inner(val) == val[2]
HasKey(val, key) == Kind(val) = "obj" /\ key \in DOMAIN Inner(val)
Member(val, key) == Inner(val)[key]

\* Value::get(&str): the member of an object, None for a missing key and
\* for every value that is not an object
Get(val, key) == IF HasKey(val, key) THEN Some(Member(val, key)) ELSE None

IsI32(val) == Kind(val) = "num"
IsU32(val) == Kind(val) = "num" /\ Inner(val) >= 0
IsNumber(val) == Kind(val) \in {"num", "big"}
IsString(val) == Kind(val) = "str"

(***************************************************************************)
(* The row type of the crate's own test, TestData {id: i32, ts: String,    *)
(* temp: f64, sensor_id: i32}, as serde derives its Deserialize: from an   *)
(* array of exactly the four fields in order, or from an object holding    *)
(* the four keys (others are ignored).  None is a decode error.            *)
(***************************************************************************)
DecodeRow(val) ==
    IF Kind(val) = "arr"
    THEN IF /\ Len(Inner(val)) = 4
            /\ IsI32(Inner(val)[1]) /\ IsString(Inner(val)[2])
            /\ IsNumber(Inner(val)[3]) /\ IsI32(Inner(val)[4])
         THEN Some([id |-> Inner(Inner(val)[1]), ts |-> Inner(Inner(val)[2]),
                    temp |-> Inner(Inner(val)[3]), sensor_id |-> Inner(Inner(val)[4])])
         ELSE None
    ELSE IF Kind(val) = "obj"
    THEN IF /\ {"id", "ts", "temp", "sensor_id"} \subseteq DOMAIN Inner(val)
            /\ IsI32(Member(val, "id")) /\ IsString(Member(val, "ts"))
            /\ IsNumber(Member(val, "temp")) /\ IsI32(Member(val, "sensor_id"))
         THEN Some([id |-> Inner(Member(val, "id")), ts |-> Inner(Member(val, "ts")),
                    temp |-> Inner(Member(val, "temp")),
                    sensor_id |-> Inner(Member(val, "sensor_id"))])
         ELSE None
    ELSE None

\* serde_json::from_value::<Vec<T>>: element by element, the first element
\* that does not decode fails the whole
RECURSIVE DecodeElems(_)
DecodeElems(elems) ==
    IF elems = <<>> THEN Some(<<>>)
    ELSE LET first == DecodeRow(Head(elems))
             rest == DecodeElems(Tail(elems))
         IN  IF IsSome(first) /\ IsSome(rest)
             THEN Some(<<Unwrap(first)>> \o Unwrap(rest))
             ELSE None

DecodeVec(val) == IF Kind(val) = "arr" THEN DecodeElems(Inner(val)) ELSE None

(***************************************************************************)
(* SQLError (crate::error, not among the sources): an object holding the   *)
(* server's error message and position; other members are ignored.         *)
(***************************************************************************)
DecodeSQLError(val) ==
    IF /\ HasKey(val, "error") /\ HasKey(val, "position")
       /\ IsString(Member(val, "error")) /\ IsU32(Member(val, "position"))
    THEN Some([error |-> Inner(Member(val, "error")),
               position |-> Inner(Member(val, "position"))])
    ELSE None

(***************************************************************************)
(* Result<_, crate::error::Error>.  The kind of an error is the error `?`  *)
(* converted it from: TransportError from reqwest::Error, DecodeError from *)
(* serde_json::Error, IoError from std::io::Error; QueryFailed is          *)
(* Error::SQLError.                                                        *)
(***************************************************************************)
Unit == <<>>
Ok(val) == [kind |-> "Ok", val |-> val]
Err(kind, val) == [kind |-> kind, val |-> val]
Pending == [kind |-> "Pending", val |-> <<>>]

\* a variant of ExecInterpret that looks for the error before the dataset
ExecInterpretErrorFirst(res) ==
    IF IsSome(DecodeSQLError(res))
    THEN [result |-> Err("QueryFailed", Unwrap(DecodeSQLError(res))), rows |-> FALSE]
    ELSE IF IsSome(Get(res, "dataset"))
    THEN [result |-> IF IsSome(DecodeVec(Unwrap(Get(res, "dataset"))))
                     THEN Ok(Unwrap(DecodeVec(Unwrap(Get(res, "dataset")))))
                     ELSE Err("DecodeError", Unit),
          rows |-> TRUE]
    ELSE [result |-> Err("DecodeError", Unit), rows |-> FALSE]

\* a variant of ExecInterpret that takes a missing dataset for an empty one
ExecInterpretDefaultRows(res) ==
    IF IsSome(Get(res, "dataset"))
    THEN [result |-> IF IsSome(DecodeVec(Unwrap(Get(res, "dataset"))))
                     THEN Ok(Unwrap(DecodeVec(Unwrap(Get(res, "dataset")))))
                     ELSE Err("DecodeError", Unit),
          rows |-> TRUE]
    ELSE [result |-> Ok(<<>>), rows |-> TRUE]

\* exec, lines 93-105, on the parsed body `res`: the outcome, and whether
\* the dataset was handed to the row decoder (line 103)
ExecInterpret(res) ==
    IF IsSome(Get(res, "dataset"))
    THEN [result |-> IF IsSome(DecodeVec(Unwrap(Get(res, "dataset"))))
                     THEN Ok(Unwrap(DecodeVec(Unwrap(Get(res, "dataset")))))
                     ELSE Err("DecodeError", Unit),
          rows |-> TRUE]
    ELSE [result |-> IF IsSome(DecodeSQLError(res))
                     THEN Err("QueryFailed", Unwrap(DecodeSQLError(res)))
                     ELSE Err("DecodeError", Unit),
          rows |-> FALSE]

(***************************************************************************)
(* The state.  self_url is QuestDB.url; every other variable maps each     *)
(* call slot to a local of the call running in it.                         *)
(***************************************************************************)
VARIABLES
    self_url,       \* QuestDB.url, stored verbatim by QuestDB::new
    pc,             \* where the call stands: idle, send, body, done
    op,             \* the operation called: none, exec, imp, exp
    args,           \* the arguments of the call
    paging,         \* the paging the caller asks for (the limit's documentation)
    url,            \* the local `url`
    file,           \* imp: the file found at file_path
    form,           \* imp: the multipart form, once the file has been read
    requests,       \* the HTTP requests the call has issued
    status,         \* the status line received (send().await returned Ok)
    body,           \* imp, exp: the bytes of the response body received
    res,            \* exec: the parsed JSON `res`; imp, exp: the text `res`
    rows_decoded,   \* exec: line 103 ran (the dataset went to the row decoder)
    written,        \* exp: the bytes written to output_file
    result          \* what the call returns

vars == <<self_url, pc, op, args, paging, url, file, form, requests, status, body, res,
          rows_decoded, written, result>>

Slots == 1 .. MaxCalls

(***************************************************************************)
(* The limit as its documentation describes it (lines 36-39, 214-217): a   *)
(* paging is <<upper>> or <<lower, upper>>.  The parameter's type is       *)
(* Option<usize> (lines 67, 238): a single bound is passed as it is; a     *)
(* caller that wants a pair has to pass some single usize in its place.    *)
(***************************************************************************)
Passable(pg, limit, limits) ==
    IF pg = None THEN limit = None
    ELSE IF Len(Unwrap(pg)) = 1 THEN limit = Some(Unwrap(pg)[1])
    ELSE limit \in limits /\ IsSome(limit)

StartCall(c, o, a, pg, u) ==
    /\ pc[c] = "idle"
    /\ op' = [op EXCEPT ![c] = o]
    /\ args' = [args EXCEPT ![c] = a]
    /\ paging' = [paging EXCEPT ![c] = pg]
    /\ url' = [url EXCEPT ![c] = Some(u)]

(***************************************************************************)
(* exec                                                                    *)
(***************************************************************************)
\* lines 71-88: the URL is built and the GET is issued
exec_call(c, D) ==
    /\ pc[c] = "idle"
    /\ \E query \in D.queries, pg \in D.pagings, limit \in D.limits,
       count \in D.flags, nm \in D.flags :
        /\ Passable(pg, limit, D.limits)
        /\ StartCall(c, "exec",
                     [query |-> query, limit |-> limit, count |-> count, nm |-> nm],
                     pg, ExecUrl(self_url, query, limit, count, nm))
        /\ requests' = [requests EXCEPT ![c] = @ + 1]
        /\ pc' = [pc EXCEPT ![c] = "send"]
        /\ UNCHANGED <<self_url, file, form, status, body, res, rows_decoded, written, result>>

\* a variant that issues the request again after a failed send
exec_send_err_retry(c, D) ==
    /\ pc[c] = "send" /\ op[c] = "exec"
    /\ requests[c] < MaxRequests
    /\ requests' = [requests EXCEPT ![c] = @ + 1]
    /\ UNCHANGED <<self_url, pc, op, args, paging, url, file, form, status, body, res,
                   rows_decoded, written, result>>

\* line 89: send().await? fails
exec_send_err(c, D) ==
    /\ pc[c] = "send" /\ op[c] = "exec"
    /\ result' = [result EXCEPT ![c] = Err("TransportError", "send")]
    /\ pc' = [pc EXCEPT ![c] = "done"]
    /\ UNCHANGED <<self_url, op, args, paging, url, file, form, requests, status, body, res,
                   rows_decoded, written>>

\* line 89: send().await? returns the response, whatever its status
exec_send_ok(c, D) ==
    /\ pc[c] = "send" /\ op[c] = "exec"
    /\ \E st \in D.statuses : status' = [status EXCEPT ![c] = Some(st)]
    /\ pc' = [pc EXCEPT ![c] = "body"]
    /\ UNCHANGED <<self_url, op, args, paging, url, file, form, requests, body, res,
                   rows_decoded, written, result>>

\* lines 90-91: json().await? fails: the body cannot be read, or it is not
\* JSON (reqwest reports both as a reqwest::Error)
exec_json_err(c, D) ==
    /\ pc[c] = "body" /\ op[c] = "exec"
    /\ \E cause \in {"body", "decode"} :
           result' = [result EXCEPT ![c] = Err("TransportError", cause)]
    /\ pc' = [pc EXCEPT ![c] = "done"]
    /\ UNCHANGED <<self_url, op, args, paging, url, file, form, requests, status, body, res,
                   rows_decoded, written>>

\* lines 90-105: the body parses as JSON and is interpreted
exec_json_ok(c, D) ==
    /\ pc[c] = "body" /\ op[c] = "exec"
    /\ \E value \in D.jsons :
        /\ res' = [res EXCEPT ![c] = Some(value)]
        /\ rows_decoded' = [rows_decoded EXCEPT ![c] = ExecInterpret(value).rows]
        /\ result' = [result EXCEPT ![c] = ExecInterpret(value).result]
    /\ pc' = [pc EXCEPT ![c] = "done"]
    /\ UNCHANGED <<self_url, op, args, paging, url, file, form, requests, status, body, written>>

(***************************************************************************)
(* imp.  A file is [state, bytes]: missing (File::open fails), unreadable  *)
(* (read_to_end fails) or ok.  A path without a file name is a directory   *)
(* or the root, which cannot be read.                                      *)
(***************************************************************************)
FileAt(file_path, files) ==
    {f \in files : PathFileName(file_path) = None => f.state # "ok"}

ImpArgs(D) ==
    [file_path : D.paths, table_name : D.tables, overwrite : D.flags,
     durable : D.flags, atomicity : D.atomicities]

\* a variant that posts before it has read the file
imp_io_err_after_post(c, D) ==
    /\ pc[c] = "idle"
    /\ \E a \in ImpArgs(D) : \E f \in FileAt(a.file_path, D.files) :
        /\ f.state # "ok"
        /\ StartCall(c, "imp", a, None,
                     ImpUrl(self_url, a.table_name, a.overwrite, a.durable, a.atomicity))
        /\ requests' = [requests EXCEPT ![c] = @ + 1]
        /\ file' = [file EXCEPT ![c] = Some(f)]
        /\ result' = [result EXCEPT ![c] = Err("IoError", f.state)]
        /\ pc' = [pc EXCEPT ![c] = "done"]
        /\ UNCHANGED <<self_url, form, status, body, res, rows_decoded, written>>

\* lines 151-184: the URL is built, then File::open or read_to_end fails
imp_io_err(c, D) ==
    /\ pc[c] = "idle"
    /\ \E a \in ImpArgs(D) : \E f \in FileAt(a.file_path, D.files) :
        /\ f.state # "ok"
        /\ StartCall(c, "imp", a, None,
                     ImpUrl(self_url, a.table_name, a.overwrite, a.durable, a.atomicity))
        /\ file' = [file EXCEPT ![c] = Some(f)]
        /\ result' = [result EXCEPT ![c] = Err("IoError", f.state)]
        /\ pc' = [pc EXCEPT ![c] = "done"]
        /\ UNCHANGED <<self_url, form, requests, status, body, res, rows_decoded, written>>

\* lines 151-201: the URL is built, the file is read, the form is made of
\* the one part `data` and the POST is issued
imp_call(c, D) ==
    /\ pc[c] = "idle"
    /\ \E a \in ImpArgs(D) : \E f \in FileAt(a.file_path, D.files) :
        /\ f.state = "ok"
        /\ StartCall(c, "imp", a, None,
                     ImpUrl(self_url, a.table_name, a.overwrite, a.durable, a.atomicity))
        /\ file' = [file EXCEPT ![c] = Some(f)]
        /\ form' = [form EXCEPT ![c] =
                        Some([name |-> "data", file_name |-> file_name(a.file_path),
                              bytes |-> f.bytes])]
        /\ requests' = [requests EXCEPT ![c] = @ + 1]
        /\ pc' = [pc EXCEPT ![c] = "send"]
        /\ UNCHANGED <<self_url, status, body, res, rows_decoded, written, result>>

\* line 202: send().await? fails
imp_send_err(c, D) ==
    /\ pc[c] = "send" /\ op[c] = "imp"
    /\ result' = [result EXCEPT ![c] = Err("TransportError", "send")]
    /\ pc' = [pc EXCEPT ![c] = "done"]
    /\ UNCHANGED <<self_url, op, args, paging, url, file, form, requests, status, body, res,
                   rows_decoded, written>>

\* line 202: send().await? returns the response, whatever its status
imp_send_ok(c, D) ==
    /\ pc[c] = "send" /\ op[c] = "imp"
    /\ \E st \in D.statuses : status' = [status EXCEPT ![c] = Some(st)]
    /\ pc' = [pc EXCEPT ![c] = "body"]
    /\ UNCHANGED <<self_url, op, args, paging, url, file, form, requests, body, res,
                   rows_decoded, written, result>>

\* lines 203-204: text().await? fails
imp_text_err(c, D) ==
    /\ pc[c] = "body" /\ op[c] = "imp"
    /\ result' = [result EXCEPT ![c] = Err("TransportError", "body")]
    /\ pc' = [pc EXCEPT ![c] = "done"]
    /\ UNCHANGED <<self_url, op, args, paging, url, file, form, requests, status, body, res,
                   rows_decoded, written>>

\* a variant that reads the body as the import's report and takes a
\* body that is not empty for a failed import
imp_text_ok_parses_body(c, D) ==
    /\ pc[c] = "body" /\ op[c] = "imp"
    /\ \E bytes \in D.bodies :
        /\ body' = [body EXCEPT ![c] = Some(bytes)]
        /\ res' = [res EXCEPT ![c] = Some(Utf8Decode(bytes))]
        /\ result' = [result EXCEPT ![c] =
                          IF bytes = <<>> THEN Ok(Unit) ELSE Err("DecodeError", Unit)]
    /\ pc' = [pc EXCEPT ![c] = "done"]
    /\ UNCHANGED <<self_url, op, args, paging, url, file, form, requests, status,
                   rows_decoded, written>>

\* lines 203-206: the body is read as text into _res and dropped
imp_text_ok(c, D) ==
    /\ pc[c] = "body" /\ op[c] = "imp"
    /\ \E bytes \in D.bodies :
        /\ body' = [body EXCEPT ![c] = Some(bytes)]
        /\ res' = [res EXCEPT ![c] = Some(Utf8Decode(bytes))]
    /\ result' = [result EXCEPT ![c] = Ok(Unit)]
    /\ pc' = [pc EXCEPT ![c] = "done"]
    /\ UNCHANGED <<self_url, op, args, paging, url, file, form, requests, status,
                   rows_decoded, written>>

(***************************************************************************)
(* exp                                                                     *)
(***************************************************************************)
\* lines 241-249: the URL is built from the query as it is and the GET is
\* issued
exp_call(c, D) ==
    /\ pc[c] = "idle"
    /\ \E query \in D.queries, pg \in D.pagings, limit \in D.limits :
        /\ Passable(pg, limit, D.limits)
        /\ StartCall(c, "exp", [query |-> query, limit |-> limit], pg,
                     ExpUrl(self_url, query, limit))
        /\ requests' = [requests EXCEPT ![c] = @ + 1]
        /\ pc' = [pc EXCEPT ![c] = "send"]
        /\ UNCHANGED <<self_url, file, form, status, body, res, rows_decoded, written, result>>

\* line 249: send().await? fails
exp_send_err(c, D) ==
    /\ pc[c] = "send" /\ op[c] = "exp"
    /\ result' = [result EXCEPT ![c] = Err("TransportError", "send")]
    /\ pc' = [pc EXCEPT ![c] = "done"]
    /\ UNCHANGED <<self_url, op, args, paging, url, file, form, requests, status, body, res,
                   rows_decoded, written>>

\* line 249: send().await? returns the response, whatever its status
exp_send_ok(c, D) ==
    /\ pc[c] = "send" /\ op[c] = "exp"
    /\ \E st \in D.statuses : status' = [status EXCEPT ![c] = Some(st)]
    /\ pc' = [pc EXCEPT ![c] = "body"]
    /\ UNCHANGED <<self_url, op, args, paging, url, file, form, requests, body, res,
                   rows_decoded, written, result>>

\* a variant that streams: what had arrived of the body when the read
\* failed is in the file
exp_text_err_streams(c, D) ==
    /\ pc[c] = "body" /\ op[c] = "exp"
    /\ \E bytes \in D.bodies : written' = [written EXCEPT ![c] = bytes]
    /\ result' = [result EXCEPT ![c] = Err("TransportError", "body")]
    /\ pc' = [pc EXCEPT ![c] = "done"]
    /\ UNCHANGED <<self_url, op, args, paging, url, file, form, requests, status, body, res,
                   rows_decoded>>

\* line 249: text().await? fails
exp_text_err(c, D) ==
    /\ pc[c] = "body" /\ op[c] = "exp"
    /\ result' = [result EXCEPT ![c] = Err("TransportError", "body")]
    /\ pc' = [pc EXCEPT ![c] = "done"]
    /\ UNCHANGED <<self_url, op, args, paging, url, file, form, requests, status, body, res,
                   rows_decoded, written>>

\* a variant that writes the text as a line (writeln!)
exp_write_ok_newline(c, D) ==
    /\ pc[c] = "body" /\ op[c] = "exp"
    /\ \E bytes \in D.bodies :
        /\ body' = [body EXCEPT ![c] = Some(bytes)]
        /\ res' = [res EXCEPT ![c] = Some(Utf8Decode(bytes))]
        /\ written' = [written EXCEPT ![c] = @ \o as_bytes(Utf8Decode(bytes)) \o <<10>>]
    /\ result' = [result EXCEPT ![c] = Ok(Unit)]
    /\ pc' = [pc EXCEPT ![c] = "done"]
    /\ UNCHANGED <<self_url, op, args, paging, url, file, form, requests, status, rows_decoded>>

\* lines 249-254: the body is read as text and write_all writes its bytes
exp_write_ok(c, D) ==
    /\ pc[c] = "body" /\ op[c] = "exp"
    /\ \E bytes \in D.bodies :
        /\ body' = [body EXCEPT ![c] = Some(bytes)]
        /\ res' = [res EXCEPT ![c] = Some(Utf8Decode(bytes))]
        /\ written' = [written EXCEPT ![c] = @ \o as_bytes(Utf8Decode(bytes))]
    /\ result' = [result EXCEPT ![c] = Ok(Unit)]
    /\ pc' = [pc EXCEPT ![c] = "done"]
    /\ UNCHANGED <<self_url, op, args, paging, url, file, form, requests, status, rows_decoded>>

\* lines 249-252: the body is read as text and write_all fails, having
\* written less than the whole (an empty buffer is never written, so its
\* write cannot fail)
exp_write_err(c, D) ==
    /\ pc[c] = "body" /\ op[c] = "exp"
    /\ \E bytes \in D.bodies :
        /\ as_bytes(Utf8Decode(bytes)) # <<>>
        /\ body' = [body EXCEPT ![c] = Some(bytes)]
        /\ res' = [res EXCEPT ![c] = Some(Utf8Decode(bytes))]
        /\ \E n \in 0 .. Len(as_bytes(Utf8Decode(bytes))) - 1 :
               written' = [written EXCEPT ![c] =
                               @ \o SubSeq(as_bytes(Utf8Decode(bytes)), 1, n)]
    /\ result' = [result EXCEPT ![c] = Err("IoError", "write")]
    /\ pc' = [pc EXCEPT ![c] = "done"]
    /\ UNCHANGED <<self_url, op, args, paging, url, file, form, requests, status, rows_decoded>>

(***************************************************************************)
(* The caller takes the result; the slot is free for the next call.        *)
(***************************************************************************)
Idle(c) ==
    /\ pc' = [pc EXCEPT ![c] = "idle"]
    /\ op' = [op EXCEPT ![c] = "none"]
    /\ args' = [args EXCEPT ![c] = <<>>]
    /\ paging' = [paging EXCEPT ![c] = None]
    /\ url' = [url EXCEPT ![c] = None]
    /\ file' = [file EXCEPT ![c] = None]
    /\ form' = [form EXCEPT ![c] = None]
    /\ requests' = [requests EXCEPT ![c] = 0]
    /\ status' = [status EXCEPT ![c] = None]
    /\ body' = [body EXCEPT ![c] = None]
    /\ res' = [res EXCEPT ![c] = None]
    /\ rows_decoded' = [rows_decoded EXCEPT ![c] = FALSE]
    /\ written' = [written EXCEPT ![c] = <<>>]
    /\ result' = [result EXCEPT ![c] = Pending]

return(c, D) ==
    /\ pc[c] = "done"
    /\ Idle(c)
    /\ UNCHANGED self_url

\* QuestDB::new, lines 24-29: the URL is stored as it is given
new(D) ==
    /\ self_url \in D.bases
    /\ pc = [c \in Slots |-> "idle"]
    /\ op = [c \in Slots |-> "none"]
    /\ args = [c \in Slots |-> <<>>]
    /\ paging = [c \in Slots |-> None]
    /\ url = [c \in Slots |-> None]
    /\ file = [c \in Slots |-> None]
    /\ form = [c \in Slots |-> None]
    /\ requests = [c \in Slots |-> 0]
    /\ status = [c \in Slots |-> None]
    /\ body = [c \in Slots |-> None]
    /\ res = [c \in Slots |-> None]
    /\ rows_decoded = [c \in Slots |-> FALSE]
    /\ written = [c \in Slots |-> <<>>]
    /\ result = [c \in Slots |-> Pending]

Step(c, D) ==
    \/ exec_call(c, D) \/ exec_send_err(c, D) \/ exec_send_ok(c, D)
    \/ exec_json_err(c, D) \/ exec_json_ok(c, D)
    \/ imp_io_err(c, D) \/ imp_call(c, D) \/ imp_send_err(c, D) \/ imp_send_ok(c, D)
    \/ imp_text_err(c, D) \/ imp_text_ok(c, D)
    \/ exp_call(c, D) \/ exp_send_err(c, D) \/ exp_send_ok(c, D)
    \/ exp_text_err(c, D) \/ exp_write_ok(c, D) \/ exp_write_err(c, D)
    \/ return(c, D)

(***************************************************************************)
(* The inputs the calls are made with.  A specification draws base URLs,   *)
(* arguments, files and responses from one of three records: a narrow one  *)
(* with all the slots in use, one wide in the arguments and one wide in    *)
(* the responses.                                                          *)
(***************************************************************************)
Flags == {None, Some(TRUE), Some(FALSE)}
Limits == {None} \cup {Some(n) : n \in 0 .. MaxLimit}
Pagings ==
    {None} \cup {Some(<<n>>) : n \in 0 .. MaxLimit}
    \cup {Some(<<lo, hi>>) : lo \in {0, 10}, hi \in {MaxLimit}}
QueryChars == {"a", " ", "&"}
Files ==
    {[state |-> "missing", bytes |-> <<>>], [state |-> "unreadable", bytes |-> <<>>],
     [state |-> "ok", bytes |-> <<>>], [state |-> "ok", bytes |-> <<97, 10>>]}
Paths == {<<".", "/", "l">>, <<"l">>, <<".", ".">>}

\* the bytes of "a", "\n", the two bytes of U+00E9 and a byte no UTF-8 holds
BodyBytes == {97, 10, 195, 169, 255}

RowA == JArr(<<JNum(1), JStr("2021-01-01"), JNum(20), JNum(3)>>)
RowB == JArr(<<JNum(2), JStr("2021-01-02"), JNum(21), JNum(3)>>)
RowObject ==
    JObj([id |-> JNum(3), ts |-> JStr("2021-01-03"), temp |-> JNum(22),
          sensor_id |-> JNum(4), note |-> JNull])
RowShort == JArr(<<JNum(1), JStr("2021-01-01")>>)
RowWrongType == JArr(<<JStr("1"), JStr("2021-01-01"), JNum(20), JNum(3)>>)
RowOverflow == JArr(<<JBig, JStr("2021-01-01"), JNum(20), JNum(3)>>)
Rows == {RowA, RowB, RowObject, RowShort, RowWrongType, RowOverflow}

EmptyObject == [k \in {} |-> JNull]
DatasetParts(rows) ==
    {EmptyObject, "dataset" :> JNum(0), "dataset" :> JNull}
    \cup {"dataset" :> JArr(elems) : elems \in SeqsUpTo(rows, MaxRows)}
ErrorParts ==
    {EmptyObject,
     ("error" :> JStr("bad query")) @@ ("position" :> JNum(7)),
     "error" :> JStr("bad query")}
OtherParts == {EmptyObject, "count" :> JNum(1)}
Jsons(rows) ==
    {JNull, JNum(0), JStr("dataset"), JArr(<<>>)}
    \cup {JObj(d @@ e @@ o) : d \in DatasetParts(rows), e \in ErrorParts, o \in OtherParts}

Narrow ==
    [calls |-> Slots, bases |-> {<<"h">>}, queries |-> {<<"a">>},
     pagings |-> {None, Some(<<5>>)}, limits |-> {None, Some(5)}, flags |-> {None},
     tables |-> {<<"t">>}, atomicities |-> {None, Some("Strict")},
     paths |-> {<<".", "/", "l">>, <<".", ".">>},
     files |-> {f \in Files : f.bytes = <<>>},
     statuses |-> {200, 400},
     jsons |-> {JNull, JObj(EmptyObject), JObj("dataset" :> JArr(<<RowA>>)),
                JObj(("error" :> JStr("bad query")) @@ ("position" :> JNum(7)))},
     bodies |-> {<<>>, <<97>>}]

WideArgs ==
    [calls |-> {1}, bases |-> {<<"h">>, <<"h", "/">>},
     queries |-> SeqsUpTo(QueryChars, MaxQuery),
     pagings |-> Pagings, limits |-> Limits, flags |-> Flags,
     tables |-> {<<"t">>, <<"t", "&", "x">>},
     atomicities |-> {None, Some("Strict"), Some("Relaxed")},
     paths |-> Paths, files |-> Files,
     statuses |-> {200},
     jsons |-> {JObj("dataset" :> JArr(<<>>))},
     bodies |-> {<<97>>}]

WideResponses ==
    [calls |-> {1}, bases |-> {<<"h">>}, queries |-> {<<"a">>},
     pagings |-> {None}, limits |-> {None}, flags |-> {None},
     tables |-> {<<"t">>}, atomicities |-> {None},
     paths |-> {<<".", "/", "l">>},
     files |-> {f \in Files : f.bytes = <<>>},
     statuses |-> {200, 204, 400},
     jsons |-> Jsons(Rows),
     bodies |-> SeqsUpTo(BodyBytes, MaxBody)]

Init == new(Narrow)
Next == \E c \in Narrow.calls : Step(c, Narrow)
Spec == Init /\ [][Next]_vars

InitArgs == new(WideArgs)
NextArgs == \E c \in WideArgs.calls : Step(c, WideArgs)
SpecArgs == InitArgs /\ [][NextArgs]_vars

InitResponses == new(WideResponses)
NextResponses == \E c \in WideResponses.calls : Step(c, WideResponses)
SpecResponses == InitResponses /\ [][NextResponses]_vars

(***************************************************************************)
(* Properties.                                                             *)
(***************************************************************************)
Called(c, o) == op[c] = o /\ pc[c] # "idle"
Returned(c, o) == op[c] = o /\ pc[c] = "done"

\* &name=text when the argument is present, nothing when it is absent
Param(name, text) == IF IsSome(text) THEN <<"&">> \o name \o <<"=">> \o Unwrap(text) ELSE <<>>
BoolText(flag) == IF flag = None THEN None ELSE Some(FmtBool(Unwrap(flag)))
UsizeText(limit) == IF limit = None THEN None ELSE Some(FmtUsize(Unwrap(limit)))

\* the body parsed as JSON and holds no dataset member
LacksDataset(c) ==
    /\ Returned(c, "exec") /\ IsSome(res[c])
    /\ ~HasKey(Unwrap(res[c]), "dataset")

\* C1 as the spec states it: every response that parses as JSON and lacks a
\* dataset makes exec fail with QueryFailed carrying the error decoded from
\* the whole response, and no row is decoded.
C1_QueryFailedWithoutDataset ==
    \A c \in Slots :
        LacksDataset(c) =>
            /\ ~rows_decoded[c]
            /\ result[c].kind = "QueryFailed"
            /\ DecodeSQLError(Unwrap(res[c])) = Some(result[c].val)

\* C1, amended: a response that parses as JSON and lacks a dataset never
\* reaches the row decoder; exec fails with QueryFailed carrying the error
\* decoded from the whole response when the response decodes as an
\* SQLError, and with a DecodeError when it does not.
C1_NoDatasetFails ==
    \A c \in Slots :
        LacksDataset(c) =>
            /\ ~rows_decoded[c]
            /\ IF IsSome(DecodeSQLError(Unwrap(res[c])))
               THEN /\ result[c].kind = "QueryFailed"
                    /\ result[c].val = Unwrap(DecodeSQLError(Unwrap(res[c])))
               ELSE result[c].kind = "DecodeError"

C1_Witness ==
    \E c \in Slots :
        /\ LacksDataset(c)
        /\ result[c].kind = "QueryFailed"
        /\ result[c].val = [error |-> "bad query", position |-> 7]
        /\ HasKey(Unwrap(res[c]), "count")

\* the dataset of the response is an array whose elements all fit the row type
DatasetFits(c) ==
    /\ Returned(c, "exec") /\ IsSome(res[c])
    /\ HasKey(Unwrap(res[c]), "dataset")
    /\ Kind(Member(Unwrap(res[c]), "dataset")) = "arr"
    /\ \A i \in 1 .. Len(Inner(Member(Unwrap(res[c]), "dataset"))) :
           IsSome(DecodeRow(Inner(Member(Unwrap(res[c]), "dataset"))[i]))

\* C2: when the dataset is an array of rows that fit the row type, exec
\* returns Ok with as many rows, the i-th the decoding of the i-th element;
\* the other members of the response change nothing.
C2_DatasetDecodedElementwise ==
    \A c \in Slots :
        DatasetFits(c) =>
            LET elems == Inner(Member(Unwrap(res[c]), "dataset"))
            IN  /\ rows_decoded[c]
                /\ result[c].kind = "Ok"
                /\ Len(result[c].val) = Len(elems)
                /\ \A i \in 1 .. Len(elems) : result[c].val[i] = Unwrap(DecodeRow(elems[i]))

C2_Witness ==
    \E c \in Slots :
        /\ DatasetFits(c)
        /\ {"error", "position", "count"} \subseteq DOMAIN Inner(Unwrap(res[c]))
        /\ result[c].kind = "Ok"
        /\ result[c].val = <<[id |-> 2, ts |-> "2021-01-02", temp |-> 21, sensor_id |-> 3],
                             [id |-> 3, ts |-> "2021-01-03", temp |-> 22, sensor_id |-> 4]>>

\* C3: the URL of exec is {base}/exec?query=<encoded query>, then &limit=,
\* &count= and &nm= in this order, each only when its argument is present.
C3_ExecUrlHoldsPresentParams ==
    \A c \in Slots :
        Called(c, "exec") =>
            url[c] = Some(self_url
                          \o <<"/", "e", "x", "e", "c", "?", "q", "u", "e", "r", "y", "=">>
                          \o encode(args[c].query)
                          \o Param(<<"l", "i", "m", "i", "t">>, UsizeText(args[c].limit))
                          \o Param(<<"c", "o", "u", "n", "t">>, BoolText(args[c].count))
                          \o Param(<<"n", "m">>, BoolText(args[c].nm)))

C3_Witness ==
    \E c \in Slots :
        /\ Called(c, "exec") /\ requests[c] = 1
        /\ args[c] = [query |-> <<"a", " ">>, limit |-> None, count |-> Some(TRUE),
                      nm |-> None]
        /\ url[c] = Some(<<"h", "/", "e", "x", "e", "c", "?", "q", "u", "e", "r", "y", "=",
                           "a", "%", "2", "0", "&", "c", "o", "u", "n", "t", "=",
                           "t", "r", "u", "e">>)

\* the text of a paging: the upper bound, or lower,upper
PagingText(pg) ==
    IF pg = None THEN None
    ELSE IF Len(Unwrap(pg)) = 1 THEN Some(FmtUsize(Unwrap(pg)[1]))
    ELSE Some(FmtUsize(Unwrap(pg)[1]) \o <<",">> \o FmtUsize(Unwrap(pg)[2]))

\* C4: the limit of exec and of exp takes a single upper bound or a
\* (lower, upper) pair; 20 is sent as limit=20 and (10, 20) as limit=10,20.
C4_LimitTakesBoundOrPair ==
    \A c \in Slots :
        /\ Called(c, "exec") =>
               url[c] = Some(self_url
                             \o <<"/", "e", "x", "e", "c", "?", "q", "u", "e", "r", "y", "=">>
                             \o encode(args[c].query)
                             \o Param(<<"l", "i", "m", "i", "t">>, PagingText(paging[c]))
                             \o Param(<<"c", "o", "u", "n", "t">>, BoolText(args[c].count))
                             \o Param(<<"n", "m">>, BoolText(args[c].nm)))
        /\ Called(c, "exp") =>
               url[c] = Some(self_url
                             \o <<"/", "e", "x", "p", "?", "q", "u", "e", "r", "y", "=">>
                             \o args[c].query
                             \o Param(<<"l", "i", "m", "i", "t">>, PagingText(paging[c])))

\* C5: an imp whose file cannot be opened or read fails with IoError and
\* has issued no request at any point of the call.
C5_NoRequestWhenFileUnread ==
    \A c \in Slots :
        (Called(c, "imp") /\ Unwrap(file[c]).state # "ok") =>
            /\ pc[c] = "done"
            /\ result[c].kind = "IoError"
            /\ requests[c] = 0

C5_Witness ==
    \E c \in Slots :
        /\ Returned(c, "imp") /\ Unwrap(file[c]).state = "missing"
        /\ result[c].kind = "IoError" /\ requests[c] = 0
        /\ \E d \in Slots : requests[d] = 1

\* the call got as far as the network
ReachedNetwork(c) == ~(op[c] = "imp" /\ Unwrap(file[c]).state # "ok")

\* C6: a call issues one request when it reaches the network and never a
\* second one, whatever it returns and whatever the other calls do.
C6_OneRequestPerCall ==
    \A c \in Slots :
        /\ requests[c] <= 1
        /\ pc[c] = "idle" => requests[c] = 0
        /\ pc[c] \in {"send", "body"} => requests[c] = 1
        /\ pc[c] = "done" => requests[c] = IF ReachedNetwork(c) THEN 1 ELSE 0

C6_Witness ==
    \E c \in Slots, d \in Slots :
        /\ Returned(c, "exec") /\ result[c].kind = "TransportError" /\ requests[c] = 1
        /\ Returned(d, "exec") /\ result[d].kind = "QueryFailed" /\ requests[d] = 1

Range(seq) == {seq[i] : i \in 1 .. Len(seq)}

\* C7: when exp has received the body, it writes the bytes of the body's
\* text once, nothing more and nothing less, and returns Ok; when the
\* write fails it returns IoError.  A body that is UTF-8 is written byte
\* for byte.
C7_ExportWritesBodyText ==
    \A c \in Slots :
        (Returned(c, "exp") /\ IsSome(res[c])) =>
            /\ \/ /\ result[c].kind = "Ok"
                  /\ written[c] = as_bytes(Unwrap(res[c]))
               \/ /\ result[c].kind = "IoError"
                  /\ IsPrefix(written[c], as_bytes(Unwrap(res[c])))
                  /\ Len(written[c]) < Len(as_bytes(Unwrap(res[c])))
            /\ Replacement \notin Range(Unwrap(res[c])) =>
                   as_bytes(Unwrap(res[c])) = Unwrap(body[c])

C7_Witness ==
    \E c \in Slots :
        /\ Returned(c, "exp") /\ result[c].kind = "Ok"
        /\ body[c] = Some(<<195, 169>>)
        /\ res[c] = Some(<<233>>)
        /\ written[c] = <<195, 169>>

\* the text of an Atomicity in the URL
AtomicityText(atomicity) ==
    IF atomicity = None THEN None
    ELSE IF Unwrap(atomicity) = "Strict" THEN Some(<<"s", "t", "r", "i", "c", "t">>)
    ELSE Some(<<"r", "e", "l", "a", "x", "e", "d">>)

\* C8: the URL of imp is {base}/imp?fmt=json&name=<table name as given>,
\* then &overwrite=, &durable= and &atomicity= in this order, each only
\* when its argument is present; Strict is strict and Relaxed is relaxed.
C8_ImpUrlHoldsPresentParams ==
    \A c \in Slots :
        Called(c, "imp") =>
            url[c] = Some(self_url
                          \o <<"/", "i", "m", "p", "?", "f", "m", "t", "=", "j", "s", "o", "n",
                               "&", "n", "a", "m", "e", "=">>
                          \o args[c].table_name
                          \o Param(<<"o", "v", "e", "r", "w", "r", "i", "t", "e">>,
                                   BoolText(args[c].overwrite))
                          \o Param(<<"d", "u", "r", "a", "b", "l", "e">>,
                                   BoolText(args[c].durable))
                          \o Param(<<"a", "t", "o", "m", "i", "c", "i", "t", "y">>,
                                   AtomicityText(args[c].atomicity)))

C8_Witness ==
    \E c \in Slots :
        /\ Called(c, "imp") /\ requests[c] = 1
        /\ args[c].overwrite = Some(FALSE) /\ args[c].durable = None
        /\ args[c].atomicity = Some("Relaxed")
        /\ url[c] = Some(<<"h", "/", "i", "m", "p", "?", "f", "m", "t", "=", "j", "s", "o", "n",
                           "&", "n", "a", "m", "e", "=", "t", "&", "x",
                           "&", "o", "v", "e", "r", "w", "r", "i", "t", "e", "=",
                           "f", "a", "l", "s", "e",
                           "&", "a", "t", "o", "m", "i", "c", "i", "t", "y", "=",
                           "r", "e", "l", "a", "x", "e", "d">>)

\* C9: once the file is read, imp returns Ok(()) for every 2xx response,
\* whatever its body, and TransportError only when the request or the
\* reading of the body failed; it returns nothing else.
C9_ImportIgnoresBody ==
    \A c \in Slots :
        (Returned(c, "imp") /\ IsSome(form[c])) =>
            /\ (/\ IsSome(status[c]) /\ Unwrap(status[c]) \in 200 .. 299
                /\ IsSome(body[c])) => result[c].kind = "Ok"
            /\ result[c].kind = "TransportError" => (status[c] = None \/ body[c] = None)
            /\ result[c].kind \in {"Ok", "TransportError"}

C9_Witness ==
    \E c \in Slots :
        /\ Returned(c, "imp") /\ IsSome(form[c])
        /\ status[c] = Some(200) /\ body[c] = Some(<<97, 10>>)
        /\ result[c].kind = "Ok"

\* C10: exp writes only once the whole body is received: while the body is
\* not received nothing is written, and when the request or the reading of
\* the body fails exp returns TransportError with nothing written.
C10_NoWriteBeforeBody ==
    \A c \in Slots :
        (Called(c, "exp") /\ body[c] = None) =>
            /\ written[c] = <<>>
            /\ pc[c] = "done" => result[c].kind = "TransportError"

C10_Witness ==
    \E c \in Slots :
        /\ Returned(c, "exp") /\ IsSome(status[c]) /\ body[c] = None
        /\ result[c].kind = "TransportError" /\ written[c] = <<>>

=============================================================================
